---- MODULE Spec2Model ----
(***************************************************************************)
(* Model of the farm simulation of src/main.py: the GameState, the menu    *)
(* loop of main() and the handlers it calls (move_player, interact,        *)
(* plant_crop, harvest, feed_animals, print_status, end_day).              *)
(*                                                                         *)
(* Item and animal names are romanised:                                    *)
(*   ninjin = carrot, jagaimo = potato, kabocha = pumpkin,                  *)
(*   tamago = egg, miruku = milk, esa = feed,                               *)
(*   niwatori = chicken, ushi = cow.                                       *)
(***************************************************************************)
EXTENDS Integers, Sequences, FiniteSets

\* The program's state: the fields of GameState, actions_left of main and
\* pc, the position of main (menu, end_day, success, late_success, failure).
VARIABLES day, actions_left, player_pos, fields, livestock, inventory, goal,
          pc

\* Observation variables: the operation that ran last, the number it
\* reported (remaining days, units fed, is_ready as 0/1), the count of
\* plantings per crop so far, and for every livestock unit the day it was
\* last fed on (NeverFed before its first feeding).
VARIABLES last, out, plantings, fed_on

vars == <<day, actions_left, player_pos, fields, livestock, inventory, goal,
          pc, last, out, plantings, fed_on>>

(***************************************************************************)
(* Bounds.  The source plays 10 days with 6 units of feed; the model keeps *)
(* the same rules over a shorter horizon.                                  *)
(***************************************************************************)
DayLimit == 4
InitFeed == 3
MaxFeed == 4
MaxHerd == 3
MaxHunger == 2
MaxQueryDay == 7

(***************************************************************************)
(* Program constants.                                                      *)
(***************************************************************************)
GRID_WIDTH == 8
GRID_HEIGHT == 6
ActionsPerDay == 3

NoCrop == "None"
NoDay == 0

\* No feeding yet (days count from 1).
NeverFed == 0

CROPS == <<[name |-> "ninjin", grow_days |-> 2],
           [name |-> "jagaimo", grow_days |-> 3],
           [name |-> "kabocha", grow_days |-> 4]>>

LIVESTOCK_TYPES == <<[name |-> "niwatori", product |-> "tamago"],
                     [name |-> "ushi", product |-> "miruku"]>>

FIELD_POSITIONS == {<<2, 1>>, <<3, 1>>, <<2, 2>>, <<3, 2>>}
BARN_POSITION == <<6, 4>>

Directions == {<<0, -1>>, <<-1, 0>>, <<0, 1>>, <<1, 0>>}

CropNames == {CROPS[i].name : i \in DOMAIN CROPS}

GrowDays(name) ==
    CROPS[CHOOSE i \in DOMAIN CROPS : CROPS[i].name = name].grow_days

EmptyPlot == [crop |-> NoCrop, planted_day |-> NoDay]

Max(a, b) == IF a >= b THEN a ELSE b
Min(a, b) == IF a <= b THEN a ELSE b

(***************************************************************************)
(* dict.get(key, 0)                                                        *)
(***************************************************************************)
Get(inv, item) == IF item \in DOMAIN inv THEN inv[item] ELSE 0

\* is_ready with a strict comparison.
is_ready_strict(plot, current_day) ==
    IF plot.crop = NoCrop \/ plot.planted_day = NoDay
    THEN FALSE
    ELSE current_day - plot.planted_day > GrowDays(plot.crop)

\* is_ready answering one day early.
is_ready_early(plot, current_day) ==
    IF plot.crop = NoCrop \/ plot.planted_day = NoDay
    THEN FALSE
    ELSE current_day - plot.planted_day >= GrowDays(plot.crop) - 1

(***************************************************************************)
(* FieldPlot.is_ready                                                      *)
(***************************************************************************)
is_ready(plot, current_day) ==
    IF plot.crop = NoCrop \/ plot.planted_day = NoDay
    THEN FALSE
    ELSE current_day - plot.planted_day >= GrowDays(plot.crop)

\* remaining days counted from the day after planting.
remaining_off_by_one(plot, current_day) ==
    GrowDays(plot.crop) - (current_day - plot.planted_day) - 1

(***************************************************************************)
(* The remaining-days expression of interact and print_status.             *)
(***************************************************************************)
remaining(plot, current_day) ==
    GrowDays(plot.crop) - (current_day - plot.planted_day)

\* goal_met with a strict comparison.
goal_met_strict(inv, g) == \A item \in DOMAIN g : Get(inv, item) > g[item]

(***************************************************************************)
(* GameState.goal_met                                                      *)
(***************************************************************************)
goal_met(inv, g) == \A item \in DOMAIN g : Get(inv, item) >= g[item]

\* move_player clamped at the upper edges only.
move_player_no_floor(pos, d) ==
    <<Min(GRID_WIDTH - 1, pos[1] + d[1]),
      Min(GRID_HEIGHT - 1, pos[2] + d[2])>>

(***************************************************************************)
(* move_player: the clamped new position for direction d.                  *)
(***************************************************************************)
move_player(pos, d) ==
    <<Max(0, Min(GRID_WIDTH - 1, pos[1] + d[1])),
      Max(0, Min(GRID_HEIGHT - 1, pos[2] + d[2]))>>

\* plant_crop that sets the crop and leaves planted_day as it was.
plant_crop_no_day(plot, crop_index, today) ==
    [crop |-> CROPS[crop_index].name, planted_day |-> plot.planted_day]

\* plant_crop that dates the planting on the next day.
plant_crop_next_day(plot, crop_index, today) ==
    [crop |-> CROPS[crop_index].name, planted_day |-> today + 1]

(***************************************************************************)
(* plant_crop: the plot after planting CROPS[crop_index] today.            *)
(***************************************************************************)
plant_crop(plot, crop_index, today) ==
    [crop |-> CROPS[crop_index].name, planted_day |-> today]

\* harvest that credits the crop and leaves the plot planted.
harvest_keep_plot(inv, plot) ==
    [inventory |-> [item \in DOMAIN inv \cup {plot.crop} |->
                      IF item = plot.crop THEN Get(inv, item) + 1
                      ELSE inv[item]],
     plot |-> plot]

(***************************************************************************)
(* harvest: the inventory after crediting the plot's crop, and the plot    *)
(* after crop and planted_day are cleared.                                 *)
(***************************************************************************)
harvest(inv, plot) ==
    [inventory |-> [item \in DOMAIN inv \cup {plot.crop} |->
                      IF item = plot.crop THEN Get(inv, item) + 1
                      ELSE inv[item]],
     plot |-> EmptyPlot]

\* feed that leaves the hunger as it was.
feed_keep_hunger(animal) == animal

\* pass_day that skips a unit fed today.
pass_day_skip_fed(animal) ==
    IF animal.hunger = 0 THEN animal ELSE [animal EXCEPT !.hunger = @ + 1]

(***************************************************************************)
(* Livestock.feed and Livestock.pass_day                                   *)
(***************************************************************************)
feed(animal) == [animal EXCEPT !.hunger = 0]

pass_day(animal) == [animal EXCEPT !.hunger = @ + 1]

(***************************************************************************)
(* feed_animals: the for loop over state.livestock from index i on, with   *)
(* the break on empty feed stock; the result carries the livestock list,   *)
(* the inventory and the number of units fed.                              *)
(***************************************************************************)
\* The loop without its break: every unit is fed whatever the stock.
RECURSIVE feed_loop_no_break(_, _, _, _)
feed_loop_no_break(ls, inv, fed, i) ==
    IF i > Len(ls)
    THEN [livestock |-> ls, inventory |-> inv, fed |-> fed]
    ELSE LET product == ls[i].livestock_type.product
             credited == [item \in DOMAIN inv \cup {product} |->
                            IF item = product THEN Get(inv, item) + 1
                            ELSE inv[item]]
             debited == [credited EXCEPT !["esa"] = @ - 1]
         IN  feed_loop_no_break([ls EXCEPT ![i] = feed(ls[i])], debited,
                                fed + 1, i + 1)

\* The loop breaking only below zero.
RECURSIVE feed_loop_late_break(_, _, _, _)
feed_loop_late_break(ls, inv, fed, i) ==
    IF i > Len(ls) \/ Get(inv, "esa") < 0
    THEN [livestock |-> ls, inventory |-> inv, fed |-> fed]
    ELSE LET product == ls[i].livestock_type.product
             credited == [item \in DOMAIN inv \cup {product} |->
                            IF item = product THEN Get(inv, item) + 1
                            ELSE inv[item]]
             debited == [credited EXCEPT !["esa"] = @ - 1]
         IN  feed_loop_late_break([ls EXCEPT ![i] = feed(ls[i])], debited,
                                  fed + 1, i + 1)

\* The loop crediting the product without taking feed from the stock.
RECURSIVE feed_loop_no_debit(_, _, _, _)
feed_loop_no_debit(ls, inv, fed, i) ==
    IF i > Len(ls) \/ Get(inv, "esa") <= 0
    THEN [livestock |-> ls, inventory |-> inv, fed |-> fed]
    ELSE LET product == ls[i].livestock_type.product
             credited == [item \in DOMAIN inv \cup {product} |->
                            IF item = product THEN Get(inv, item) + 1
                            ELSE inv[item]]
         IN  feed_loop_no_debit([ls EXCEPT ![i] = feed(ls[i])], credited,
                                fed + 1, i + 1)

RECURSIVE feed_loop(_, _, _, _)
feed_loop(ls, inv, fed, i) ==
    IF i > Len(ls) \/ Get(inv, "esa") <= 0
    THEN [livestock |-> ls, inventory |-> inv, fed |-> fed]
    ELSE LET product == ls[i].livestock_type.product
             credited == [item \in DOMAIN inv \cup {product} |->
                            IF item = product THEN Get(inv, item) + 1
                            ELSE inv[item]]
             debited == [credited EXCEPT !["esa"] = @ - 1]
         IN  feed_loop([ls EXCEPT ![i] = feed(ls[i])], debited, fed + 1, i + 1)

\* feed_animals without any test of the feed stock.
feed_animals_unchecked(ls, inv) == feed_loop_no_break(ls, inv, 0, 1)

\* feed_animals refusing only below zero.
feed_animals_late_refusal(ls, inv) ==
    IF Get(inv, "esa") < 0
    THEN [livestock |-> ls, inventory |-> inv, fed |-> 0]
    ELSE feed_loop_late_break(ls, inv, 0, 1)

feed_animals(ls, inv) ==
    IF Get(inv, "esa") <= 0
    THEN [livestock |-> ls, inventory |-> inv, fed |-> 0]
    ELSE feed_loop(ls, inv, 0, 1)

(***************************************************************************)
(* print_status, lines 92-99: the status line of every plot.               *)
(***************************************************************************)
print_status(fs, today) ==
    [pos \in DOMAIN fs |->
        IF fs[pos].crop = NoCrop
        THEN [status |-> "empty", remaining |-> 0]
        ELSE IF is_ready(fs[pos], today)
        THEN [status |-> "ready", remaining |-> 0]
        ELSE [status |-> "growing", remaining |-> remaining(fs[pos], today)]]

(***************************************************************************)
(* GameState.__init__                                                      *)
(***************************************************************************)
InitInventory ==
    [item \in {"tamago", "miruku", "ninjin", "jagaimo", "kabocha", "esa"} |->
        IF item = "esa" THEN InitFeed ELSE 0]

InitLivestock ==
    <<[livestock_type |-> LIVESTOCK_TYPES[1], hunger |-> 0],
      [livestock_type |-> LIVESTOCK_TYPES[1], hunger |-> 0],
      [livestock_type |-> LIVESTOCK_TYPES[2], hunger |-> 0]>>

(***************************************************************************)
(* The goal is a field of GameState fixed at construction.  The source's   *)
(* thresholds (ninjin 5, jagaimo 3, tamago 4, miruku 2) lie beyond the     *)
(* horizon of DayLimit, so the model draws the goal from thresholds that   *)
(* the shortened game can reach: one met by a harvest, one by feeding.     *)
(***************************************************************************)
GoalChoices ==
    { [item \in {"ninjin"} |-> 1],
      [item \in {"tamago", "miruku"} |-> IF item = "tamago" THEN 2 ELSE 1] }

Init ==
    /\ day = 1
    /\ actions_left = ActionsPerDay
    /\ player_pos = <<0, 0>>
    /\ fields = [pos \in FIELD_POSITIONS |-> EmptyPlot]
    /\ livestock = InitLivestock
    /\ inventory = InitInventory
    /\ goal \in GoalChoices
    /\ pc = "menu"
    /\ last = "init"
    /\ out = 0
    /\ plantings = [c \in CropNames |-> 0]
    /\ fed_on = [i \in DOMAIN livestock |-> NeverFed]

\* The inner loop condition tested before the goal.
after_choice_budget_first(inv, left) ==
    IF left > 0
    THEN (IF goal_met(inv, goal) THEN "success" ELSE "menu")
    ELSE "end_day"

(***************************************************************************)
(* main, lines 251-253 and the inner loop condition: after a menu choice   *)
(* the goal is checked, then the inner loop either continues or falls      *)
(* through to end_day.                                                     *)
(***************************************************************************)
after_choice(inv, left) ==
    IF goal_met(inv, goal) THEN "success"
    ELSE IF left > 0 THEN "menu" ELSE "end_day"

\* A move that is not charged.
Move_free ==
    /\ pc = "menu"
    /\ \E d \in Directions : player_pos' = move_player(player_pos, d)
    /\ actions_left' = actions_left
    /\ pc' = after_choice(inventory, actions_left')
    /\ last' = "move"
    /\ out' = 0
    /\ UNCHANGED <<day, fields, livestock, inventory, goal, plantings, fed_on>>

(***************************************************************************)
(* choice 0: move_player, actions_left -= 1                                *)
(***************************************************************************)
Move ==
    /\ pc = "menu"
    /\ \E d \in Directions : player_pos' = move_player(player_pos, d)
    /\ actions_left' = actions_left - 1
    /\ pc' = after_choice(inventory, actions_left')
    /\ last' = "move"
    /\ out' = 0
    /\ UNCHANGED <<day, fields, livestock, inventory, goal, plantings, fed_on>>

(***************************************************************************)
(* choice 1: interact, actions_left -= 1                                   *)
(***************************************************************************)
InteractPlant ==
    /\ player_pos \in DOMAIN fields
    /\ fields[player_pos].crop = NoCrop
    /\ \E crop_index \in DOMAIN CROPS :
          /\ fields' = [fields EXCEPT
                           ![player_pos] = plant_crop(@, crop_index, day)]
          /\ plantings' = [plantings EXCEPT
                              ![CROPS[crop_index].name] = @ + 1]
    /\ last' = "plant"
    /\ out' = 0
    /\ UNCHANGED <<livestock, inventory, fed_on>>

InteractHarvest ==
    /\ player_pos \in DOMAIN fields
    /\ fields[player_pos].crop # NoCrop
    /\ is_ready(fields[player_pos], day)
    /\ LET r == harvest(inventory, fields[player_pos])
       IN  /\ inventory' = r.inventory
           /\ fields' = [fields EXCEPT ![player_pos] = r.plot]
    /\ last' = "harvest"
    /\ out' = 0
    /\ UNCHANGED <<livestock, plantings, fed_on>>

InteractGrowing ==
    /\ player_pos \in DOMAIN fields
    /\ fields[player_pos].crop # NoCrop
    /\ ~is_ready(fields[player_pos], day)
    /\ last' = "growing"
    /\ out' = remaining(fields[player_pos], day)
    /\ UNCHANGED <<fields, livestock, inventory, plantings, fed_on>>

InteractFeed ==
    /\ player_pos \notin DOMAIN fields
    /\ player_pos = BARN_POSITION
    /\ LET r == feed_animals(livestock, inventory)
       IN  /\ livestock' = r.livestock
           /\ inventory' = r.inventory
           /\ out' = r.fed
           /\ last' = IF Get(inventory, "esa") <= 0 THEN "no_feed" ELSE "feed"
           /\ fed_on' = [i \in DOMAIN fed_on |->
                            IF i <= r.fed THEN day ELSE fed_on[i]]
    /\ UNCHANGED <<fields, plantings>>

InteractNothing ==
    /\ player_pos \notin DOMAIN fields
    /\ player_pos # BARN_POSITION
    /\ last' = "nothing"
    /\ out' = 0
    /\ UNCHANGED <<fields, livestock, inventory, plantings, fed_on>>

\* interact charged only when it planted, harvested or fed.
Interact_refund_informational ==
    /\ pc = "menu"
    /\ \/ InteractPlant
       \/ InteractHarvest
       \/ InteractGrowing
       \/ InteractFeed
       \/ InteractNothing
    /\ actions_left' = IF last' \in {"growing", "nothing", "no_feed"}
                       THEN actions_left ELSE actions_left - 1
    /\ pc' = after_choice(inventory', actions_left')
    /\ UNCHANGED <<day, player_pos, goal>>

Interact ==
    /\ pc = "menu"
    /\ \/ InteractPlant
       \/ InteractHarvest
       \/ InteractGrowing
       \/ InteractFeed
       \/ InteractNothing
    /\ actions_left' = actions_left - 1
    /\ pc' = after_choice(inventory', actions_left')
    /\ UNCHANGED <<day, player_pos, goal>>

(***************************************************************************)
(* choice 2: print_status; the action count is not touched.                *)
(***************************************************************************)
\* print_status charged like a move.
Status_charged ==
    /\ pc = "menu"
    /\ actions_left' = actions_left - 1
    /\ pc' = after_choice(inventory, actions_left')
    /\ last' = "status"
    /\ out' = 0
    /\ UNCHANGED <<day, player_pos, fields, livestock, inventory, goal,
                   plantings, fed_on>>

Status ==
    /\ pc = "menu"
    /\ pc' = after_choice(inventory, actions_left)
    /\ last' = "status"
    /\ out' = 0
    /\ UNCHANGED <<day, actions_left, player_pos, fields, livestock,
                   inventory, goal, plantings, fed_on>>

(***************************************************************************)
(* choice 3: actions_left = 0                                              *)
(***************************************************************************)
EndActions ==
    /\ pc = "menu"
    /\ actions_left' = 0
    /\ pc' = after_choice(inventory, actions_left')
    /\ last' = "end_actions"
    /\ out' = 0
    /\ UNCHANGED <<day, player_pos, fields, livestock, inventory, goal,
                   plantings, fed_on>>

(***************************************************************************)
(* end_day, then the outer loop condition of main and, when the loop is    *)
(* left, the final goal test of lines 257-261.                             *)
(***************************************************************************)
end_day(ls) == [i \in DOMAIN ls |-> pass_day(ls[i])]

\* The outer loop running one day too long.
main_loop_cond_off_by_one(d) == d <= DayLimit + 1

\* main, line 226: while state.day <= state.day_limit
main_loop_cond(d) == d <= DayLimit

EndDay ==
    /\ pc = "end_day"
    /\ livestock' = end_day(livestock)
    /\ day' = day + 1
    /\ IF main_loop_cond(day')
       THEN /\ actions_left' = ActionsPerDay
            /\ pc' = "menu"
       ELSE /\ actions_left' = actions_left
            /\ pc' = IF goal_met(inventory, goal)
                     THEN "late_success" ELSE "failure"
    /\ last' = "end_day"
    /\ out' = 0
    /\ UNCHANGED <<player_pos, fields, inventory, goal, plantings, fed_on>>

Next == Move \/ Interact \/ Status \/ EndActions \/ EndDay

Spec == Init /\ [][Next]_vars

(***************************************************************************)
(* The player answers every prompt and does not choose status for ever: a  *)
(* charged choice (move, interact, end-actions) is eventually made while   *)
(* the menu is offered, and end_day runs once the inner loop is left.      *)
(***************************************************************************)
FairSpec ==
    /\ Spec
    /\ WF_vars(Move \/ Interact \/ EndActions)
    /\ WF_vars(EndDay)

(***************************************************************************)
(* The game of the source as built by GameState.__init__: 10 days, 6 units *)
(* of feed and the goal ninjin 5, jagaimo 3, tamago 4, miruku 2.  Its      *)
(* states are too many to enumerate as behaviours, so the steps of main    *)
(* are written once more as a function from a GameState value to the set   *)
(* of GameState values one step later, built from the same handlers.       *)
(***************************************************************************)
SourceDayLimit == 10
SourceFeed == 6

SourceGoal ==
    [item \in {"ninjin", "jagaimo", "tamago", "miruku"} |->
        CASE item = "ninjin" -> 5
          [] item = "jagaimo" -> 3
          [] item = "tamago" -> 4
          [] item = "miruku" -> 2]

SourceInit ==
    [day |-> 1,
     actions_left |-> ActionsPerDay,
     player_pos |-> <<0, 0>>,
     fields |-> [pos \in FIELD_POSITIONS |-> EmptyPlot],
     livestock |-> InitLivestock,
     inventory |-> [InitInventory EXCEPT !["esa"] = SourceFeed]]

\* main, lines 240-249: the states after one menu choice in state s.
GameChoices(s) ==
    LET pos == s.player_pos
        charged(t) == [t EXCEPT !.actions_left = s.actions_left - 1]
        moved == {charged([s EXCEPT !.player_pos = move_player(pos, d)]) :
                     d \in Directions}
        interacted ==
            IF pos \in DOMAIN s.fields
            THEN IF s.fields[pos].crop = NoCrop
                 THEN {charged([s EXCEPT
                          !.fields[pos] = plant_crop(@, crop_index, s.day)]) :
                          crop_index \in DOMAIN CROPS}
                 ELSE IF is_ready(s.fields[pos], s.day)
                 THEN LET r == harvest(s.inventory, s.fields[pos])
                      IN  {charged([s EXCEPT !.inventory = r.inventory,
                                             !.fields[pos] = r.plot])}
                 ELSE {charged(s)}
            ELSE IF pos = BARN_POSITION
            THEN LET r == feed_animals(s.livestock, s.inventory)
                 IN  {charged([s EXCEPT !.livestock = r.livestock,
                                        !.inventory = r.inventory])}
            ELSE {charged(s)}
        status == {s}
        end_actions == {[s EXCEPT !.actions_left = 0]}
    IN  moved \cup interacted \cup status \cup end_actions

\* main, lines 226-255: the states one step after s in a game of `limit`
\* days with goal g: none once the goal is met or the days are over, a menu
\* choice while actions are left, end_day otherwise.
GameSteps(s, limit, g) ==
    IF goal_met(s.inventory, g) \/ s.day > limit
    THEN {}
    ELSE IF s.actions_left > 0
    THEN GameChoices(s)
    ELSE {[s EXCEPT !.day = @ + 1,
                    !.livestock = end_day(@),
                    !.actions_left = IF s.day + 1 <= limit
                                     THEN ActionsPerDay ELSE 0]}

(***************************************************************************)
(* The program as GameState.__init__ builds it, with the source's feed     *)
(* stock and goal, followed over the days of the model.                    *)
(***************************************************************************)
InitSource ==
    /\ day = SourceInit.day
    /\ actions_left = SourceInit.actions_left
    /\ player_pos = SourceInit.player_pos
    /\ fields = SourceInit.fields
    /\ livestock = SourceInit.livestock
    /\ inventory = SourceInit.inventory
    /\ goal = SourceGoal
    /\ pc = "menu"
    /\ last = "init"
    /\ out = 0
    /\ plantings = [c \in CropNames |-> 0]
    /\ fed_on = [i \in DOMAIN livestock |-> NeverFed]

SpecSource == InitSource /\ [][Next]_vars

(***************************************************************************)
(* FieldPlot.is_ready as a function of its inputs: one plot holds any crop *)
(* planted on any day up to MaxQueryDay (or is empty), the current day is  *)
(* any day, and the query is repeated as days pass.                        *)
(***************************************************************************)
PlotChoices ==
    {EmptyPlot} \cup
    {[crop |-> c, planted_day |-> d] : c \in CropNames, d \in 1..MaxQueryDay}

InitReady ==
    /\ day \in 1..MaxQueryDay
    /\ actions_left = ActionsPerDay
    /\ player_pos \in FIELD_POSITIONS
    /\ \E plot \in PlotChoices :
          /\ plot.crop # NoCrop => plot.planted_day <= day
          /\ fields = [pos \in FIELD_POSITIONS |->
                          IF pos = player_pos THEN plot ELSE EmptyPlot]
    /\ livestock = InitLivestock
    /\ inventory = InitInventory
    /\ goal \in GoalChoices
    /\ pc = "menu"
    /\ last = "init"
    /\ out = 0
    /\ plantings = [c \in CropNames |-> 0]
    /\ fed_on = [i \in DOMAIN livestock |-> NeverFed]

QueryReady ==
    /\ out' = IF is_ready(fields[player_pos], day) THEN 1 ELSE 0
    /\ last' = "is_ready"
    /\ UNCHANGED <<day, actions_left, player_pos, fields, livestock,
                   inventory, goal, pc, plantings, fed_on>>

QueryTick ==
    /\ day < MaxQueryDay + 1
    /\ day' = day + 1
    /\ last' = "tick"
    /\ out' = 0
    /\ UNCHANGED <<actions_left, player_pos, fields, livestock, inventory,
                   goal, pc, plantings, fed_on>>

NextReady == QueryReady \/ QueryTick

SpecReady == InitReady /\ [][NextReady]_vars

(***************************************************************************)
(* feed_animals as a function of its inputs: any feed stock up to MaxFeed  *)
(* and any livestock list of up to MaxHerd units, called repeatedly with   *)
(* days passing in between.                                                *)
(***************************************************************************)
Animals ==
    {[livestock_type |-> LIVESTOCK_TYPES[t], hunger |-> h] :
        t \in DOMAIN LIVESTOCK_TYPES, h \in 0..MaxHunger}

Herds == UNION {[1..n -> Animals] : n \in 0..MaxHerd}

InitFeedCall ==
    /\ day = 1
    /\ actions_left = ActionsPerDay
    /\ player_pos = BARN_POSITION
    /\ fields = [pos \in FIELD_POSITIONS |-> EmptyPlot]
    /\ livestock \in Herds
    /\ \E f \in 0..MaxFeed : inventory = [InitInventory EXCEPT !["esa"] = f]
    /\ goal \in GoalChoices
    /\ pc = "menu"
    /\ last = "init"
    /\ out = 0
    /\ plantings = [c \in CropNames |-> 0]
    /\ fed_on = [i \in DOMAIN livestock |-> NeverFed]

FeedCall ==
    /\ LET r == feed_animals(livestock, inventory)
       IN  /\ livestock' = r.livestock
           /\ inventory' = r.inventory
           /\ out' = r.fed
           /\ fed_on' = [i \in DOMAIN fed_on |->
                            IF i <= r.fed THEN day ELSE fed_on[i]]
    /\ last' = "feed_animals"
    /\ UNCHANGED <<day, actions_left, player_pos, fields, goal, pc,
                   plantings>>

FeedPassDay ==
    /\ \A i \in DOMAIN livestock : livestock[i].hunger < MaxHunger
    /\ livestock' = end_day(livestock)
    /\ last' = "pass_day"
    /\ out' = 0
    /\ UNCHANGED <<day, actions_left, player_pos, fields, inventory, goal,
                   pc, plantings, fed_on>>

NextFeed == FeedCall \/ FeedPassDay

SpecFeed == InitFeedCall /\ [][NextFeed]_vars

(***************************************************************************)
(* Properties.                                                             *)
(***************************************************************************)

\* The thresholds of the goal, written out on the inventory.
GoalReached ==
    \A item \in DOMAIN goal :
        (IF item \in DOMAIN inventory THEN inventory[item] ELSE 0)
            >= goal[item]

\* C1: after every menu choice the goal is checked: whenever the goal holds
\* the run has ended in success, on a day within the day limit (also when
\* the choice was the last action of the last day), and from success no
\* further action and no end_day can be taken.
C1_GoalEndsRun ==
    /\ GoalReached => (pc = "success" /\ day <= DayLimit)
    /\ pc = "success" => (GoalReached /\ ~ENABLED Next)

\* Success reached by a harvest that was the last action of the last day.
C1_Witness ==
    /\ pc = "success"
    /\ last = "harvest"
    /\ day = DayLimit
    /\ actions_left = 0

\* C2: the day stays within 1..day_limit + 1, the menu is never offered
\* after the day limit, and a run that reaches day_limit + 1 has ended in
\* failure with the goal unmet; the success branch after the loop is never
\* taken.
C2_DayLimit ==
    /\ day \in 1..(DayLimit + 1)
    /\ pc \in {"menu", "end_day"} => day <= DayLimit
    /\ pc # "late_success"
    /\ day > DayLimit => (pc = "failure" /\ ~GoalReached /\ ~ENABLED Next)

\* The run has passed the last day and reported failure.
C2_Witness ==
    /\ day = DayLimit + 1
    /\ pc = "failure"
    /\ last = "end_day"

\* C3: is_ready answers false for an empty plot, false before
\* planted_day + grow_days and true from that day on.
C3_Readiness ==
    last = "is_ready" =>
        LET plot == fields[player_pos]
        IN  /\ plot.crop = NoCrop => out = 0
            /\ plot.crop # NoCrop =>
                 /\ day < plot.planted_day + GrowDays(plot.crop) => out = 0
                 /\ day >= plot.planted_day + GrowDays(plot.crop) => out = 1

\* jagaimo (3 days) planted on day 2 is reported ready on day 5.
C3_Witness ==
    /\ last = "is_ready"
    /\ fields[player_pos] = [crop |-> "jagaimo", planted_day |-> 2]
    /\ day = 5
    /\ out = 1

\* C4: a remaining-days value computed for an occupied plot that is not
\* ready, by interact or by print_status, lies in 1..grow_days, and for a
\* plot that stays planted it drops by exactly 1 at each end_day.
C4_RemainingState ==
    /\ LET shown == print_status(fields, day)
       IN  \A pos \in DOMAIN fields :
              shown[pos].status = "growing" =>
                  shown[pos].remaining \in 1..GrowDays(fields[pos].crop)
    /\ last = "growing" => out \in 1..GrowDays(fields[player_pos].crop)

C4_RemainingStep ==
    last' = "end_day" =>
        LET before == print_status(fields, day)
            after == print_status(fields', day')
        IN  \A pos \in DOMAIN fields :
               (before[pos].status = "growing" /\ after[pos].status = "growing")
               => after[pos].remaining = before[pos].remaining - 1

C4_RemainingDays == []C4_RemainingState /\ [][C4_RemainingStep]_vars

\* interact reports one day left for a jagaimo.
C4_Witness ==
    /\ last = "growing"
    /\ out = 1
    /\ fields[player_pos].crop = "jagaimo"

\* C5: a harvest is taken only on a ready plot, adds exactly 1 to the
\* inventory of the plot's crop and empties the plot; the step after a
\* harvest credits nothing and is no harvest; and no crop is ever credited
\* more often than it was planted.
C5_HarvestStep ==
    /\ last' = "harvest" =>
          LET plot == fields[player_pos]
          IN  /\ plot.crop # NoCrop
              /\ day - plot.planted_day >= GrowDays(plot.crop)
              /\ inventory' = [inventory EXCEPT ![plot.crop] = @ + 1]
              /\ fields' = [fields EXCEPT ![player_pos] = EmptyPlot]
    /\ last = "harvest" => (inventory' = inventory /\ last' # "harvest")

C5_CreditedAtMostPlanted ==
    \A c \in CropNames : Get(inventory, c) <= plantings[c]

C5_HarvestOnce == [][C5_HarvestStep]_vars /\ []C5_CreditedAtMostPlanted

\* The plot harvested by the first action of the day is interacted with
\* again: it is planted anew and the inventory still holds one ninjin.
C5_Witness ==
    /\ last = "plant"
    /\ day = DayLimit
    /\ actions_left = 1
    /\ Get(inventory, "ninjin") = 1
    /\ fields[player_pos].planted_day = day

\* C6: one call of feed_animals with feed stock f and n units feeds the
\* first min(f, n) units in list order: it reports that number, lowers the
\* feed stock by it (never below 0), credits one product per fed unit and
\* resets the hunger of exactly those units.
C6_FeedStep ==
    last' = "feed_animals" =>
        LET n == Len(livestock)
            f == inventory["esa"]
            k == IF f <= n THEN f ELSE n
        IN  /\ out' = k
            /\ inventory'["esa"] = f - k
            /\ inventory'["esa"] >= 0
            /\ DOMAIN inventory' = DOMAIN inventory
            /\ \A item \in DOMAIN inventory \ {"esa"} :
                  inventory'[item] = inventory[item] + Cardinality(
                      {i \in 1..k : livestock[i].livestock_type.product = item})
            /\ Len(livestock') = n
            /\ \A i \in 1..n :
                  /\ i <= k => livestock'[i] = [livestock[i] EXCEPT !.hunger = 0]
                  /\ i > k => livestock'[i] = livestock[i]

C6_FeedAccounting == [][C6_FeedStep]_vars

\* Feed stock 1 with two hungry units: exactly the first one was fed.
C6_Witness ==
    /\ last = "feed_animals"
    /\ out = 1
    /\ Len(livestock) = 2
    /\ inventory["esa"] = 0
    /\ livestock[1].hunger = 0
    /\ livestock[2].hunger > 0

\* C7: no inventory quantity is ever negative; quantities other than the
\* feed stock never decrease, and the feed stock only changes by going
\* down from a positive value.
C7_NonNegative == \A item \in DOMAIN inventory : inventory[item] >= 0

C7_InventoryStep ==
    /\ \A item \in DOMAIN inventory \ {"esa"} :
          Get(inventory', item) >= inventory[item]
    /\ inventory'["esa"] # inventory["esa"] =>
          (inventory["esa"] > 0 /\ inventory'["esa"] < inventory["esa"])

C7_InventoryNeverNegative == []C7_NonNegative /\ [][C7_InventoryStep]_vars

\* A feeding that used up the last of the feed stock.
C7_Witness ==
    /\ last = "feed"
    /\ out > 0
    /\ inventory["esa"] = 0

\* C8: the program recognises the goal exactly when every goal item has
\* reached its threshold (an absent item counting 0); no step lowers the
\* count of a goal item or changes the goal, so a goal once reached stays
\* reached.
C8_GoalStep ==
    /\ goal' = goal
    /\ \A item \in DOMAIN goal : Get(inventory', item) >= Get(inventory, item)
    /\ GoalReached => GoalReached'

C8_GoalMonotonic ==
    [](GoalReached <=> pc = "success") /\ [][C8_GoalStep]_vars

\* The goal was reached by the products of a feeding.
C8_Witness ==
    /\ pc = "success"
    /\ last = "feed"
    /\ Get(inventory, "tamago") >= 2

\* C9 as stated: a feed attempt with no feed stock changes nothing and
\* leaves the day's remaining action count as it was.
C9_Original ==
    [][last' = "no_feed" =>
          /\ actions_left' = actions_left
          /\ UNCHANGED <<day, player_pos, fields, livestock, inventory, goal>>
      ]_vars

\* C9 amended: a feed attempt with no feed stock changes nothing in the
\* fields, the livestock, the inventory, the position or the day, and it
\* is charged like every other interact: the remaining action count goes
\* down by 1.
C9_RefusedFeedCharged ==
    [][last' = "no_feed" =>
          /\ inventory["esa"] = 0
          /\ player_pos = BARN_POSITION
          /\ out' = 0
          /\ actions_left' = actions_left - 1
          /\ UNCHANGED <<day, player_pos, fields, livestock, inventory, goal>>
      ]_vars

\* A feed attempt at the barn was refused for lack of feed.
C9_Witness ==
    /\ last = "no_feed"
    /\ player_pos = BARN_POSITION
    /\ inventory["esa"] = 0

\* C10: the player stays on the grid; a move adds a unit vector and clamps
\* each axis to the grid, so a move against a wall leaves the position
\* where it was and the axis not moved along is never altered.
Clamp(v, lo, hi) == IF v < lo THEN lo ELSE IF v > hi THEN hi ELSE v

C10_OnGrid ==
    /\ player_pos[1] \in 0..(GRID_WIDTH - 1)
    /\ player_pos[2] \in 0..(GRID_HEIGHT - 1)

C10_MoveStep ==
    /\ last' = "move" =>
          \E d \in Directions :
             /\ player_pos' = <<Clamp(player_pos[1] + d[1], 0, GRID_WIDTH - 1),
                                Clamp(player_pos[2] + d[2], 0, GRID_HEIGHT - 1)>>
             /\ d[1] = 0 => player_pos'[1] = player_pos[1]
             /\ d[2] = 0 => player_pos'[2] = player_pos[2]
    /\ last' # "move" => player_pos' = player_pos

C10_BoundedMovement == []C10_OnGrid /\ [][C10_MoveStep]_vars

\* The first action of the game was a move and the player is still at the
\* origin: the move went against a wall.
C10_Witness ==
    /\ last = "move"
    /\ day = 1
    /\ actions_left = ActionsPerDay - 1
    /\ player_pos = <<0, 0>>

\* C11: for every plot, planted_day is set exactly when crop is set, and a
\* set planted_day lies in 1..day.
C11_CoPresence ==
    \A pos \in DOMAIN fields :
        /\ (fields[pos].planted_day # NoDay) <=> (fields[pos].crop # NoCrop)
        /\ fields[pos].crop # NoCrop => fields[pos].planted_day \in 1..day

\* A plot planted on an earlier day next to a plot that is empty.
C11_Witness ==
    /\ \E pos \in DOMAIN fields :
          fields[pos].crop # NoCrop /\ fields[pos].planted_day < day
    /\ \E pos \in DOMAIN fields : fields[pos] = EmptyPlot

\* C14: an interact on an occupied plot that is not ready, or on a cell
\* that is neither a field nor the barn, changes nothing in fields,
\* livestock, inventory, player position or day, and lowers the remaining
\* action count by 1.
C14_InformationalStep ==
    /\ last' = "growing" =>
          /\ player_pos \in FIELD_POSITIONS
          /\ fields[player_pos].crop # NoCrop
          /\ day - fields[player_pos].planted_day
                < GrowDays(fields[player_pos].crop)
    /\ last' = "nothing" =>
          (player_pos \notin FIELD_POSITIONS /\ player_pos # BARN_POSITION)
    /\ last' \in {"growing", "nothing"} =>
          /\ UNCHANGED <<fields, livestock, inventory, player_pos, day>>
          /\ actions_left' = actions_left - 1

C14_InformationalCharged == [][C14_InformationalStep]_vars

\* An interact on a bare cell used up the day's last action.
C14_Witness ==
    /\ last = "nothing"
    /\ actions_left = 0
    /\ pc = "end_day"

\* C15: harvest is only ever taken on the plot under the player, occupied
\* and ready on the current day.
C15_HarvestStep ==
    last' = "harvest" =>
        /\ player_pos \in FIELD_POSITIONS
        /\ fields[player_pos].crop \in CropNames
        /\ fields[player_pos].planted_day # NoDay
        /\ day >= fields[player_pos].planted_day
                     + GrowDays(fields[player_pos].crop)

C15_HarvestOnlyReady == [][C15_HarvestStep]_vars

\* A harvest after which the game goes on.
C15_Witness ==
    /\ last = "harvest"
    /\ pc = "menu"

\* C16: a plot becomes occupied only by a planting on the player's cell,
\* dated today; an occupied plot changes only by a harvest of that same
\* plot; so a ready plot stays ready until it is harvested.
C16_PlotStep ==
    \A pos \in DOMAIN fields :
        /\ (fields[pos].crop = NoCrop /\ fields'[pos] # fields[pos]) =>
              /\ last' = "plant"
              /\ pos = player_pos
              /\ fields'[pos].crop \in CropNames
              /\ fields'[pos].planted_day = day
        /\ (fields[pos].crop # NoCrop /\ fields'[pos] # fields[pos]) =>
              /\ last' = "harvest"
              /\ pos = player_pos
              /\ fields'[pos] = EmptyPlot
        /\ (/\ fields[pos].crop # NoCrop
            /\ day - fields[pos].planted_day >= GrowDays(fields[pos].crop)
            /\ ~(last' = "harvest" /\ pos = player_pos)) =>
              /\ fields'[pos] = fields[pos]
              /\ day' - fields'[pos].planted_day >= GrowDays(fields'[pos].crop)

C16_OccupiedStable == [][C16_PlotStep]_vars

\* A plot that was ready yesterday is still planted and ready after the
\* day has ended.
C16_Witness ==
    /\ last = "end_day"
    /\ \E pos \in DOMAIN fields :
          /\ fields[pos].crop # NoCrop
          /\ (day - 1) - fields[pos].planted_day >= GrowDays(fields[pos].crop)

\* C17: end_day raises the hunger of every livestock unit by exactly 1,
\* also of a unit fed that day, raises day by exactly 1 and leaves fields,
\* inventory and player position unchanged.
C17_EndDayStep ==
    last' = "end_day" =>
        /\ day' = day + 1
        /\ Len(livestock') = Len(livestock)
        /\ \A i \in DOMAIN livestock :
              /\ livestock'[i].hunger = livestock[i].hunger + 1
              /\ livestock'[i].livestock_type = livestock[i].livestock_type
        /\ UNCHANGED <<fields, inventory, player_pos>>

C17_EndDay == [][C17_EndDayStep]_vars

\* The day ended on which the first unit was fed: its hunger is 1.
C17_Witness ==
    /\ last = "end_day"
    /\ fed_on[1] = day - 1
    /\ livestock[1].hunger = 1

\* C18: the hunger of every livestock unit is the number of days since it
\* was last fed, or day - 1 if it never was; so it lies in 0..day - 1, and
\* it does not decrease along the livestock list.
C18_HungerSinceFed ==
    /\ \A i \in DOMAIN livestock :
          /\ livestock[i].hunger =
                IF fed_on[i] = NeverFed THEN day - 1 ELSE day - fed_on[i]
          /\ livestock[i].hunger \in 0..(day - 1)
    /\ \A i, j \in DOMAIN livestock :
          i < j => livestock[i].hunger <= livestock[j].hunger

\* The units were fed today, days after the start: hunger is back at 0.
C18_Witness ==
    /\ last = "feed"
    /\ day > 1
    /\ fed_on[1] = day
    /\ livestock[1].hunger = 0

\* C19: choosing status changes nothing in day, fields, livestock,
\* inventory or player position, leaves the remaining action count as it
\* is, and can be chosen again at once.
C19_StatusStep ==
    last' = "status" =>
        /\ UNCHANGED <<day, fields, livestock, inventory, player_pos, goal>>
        /\ actions_left' = actions_left
        /\ pc' = pc

C19_StatusFree ==
    [][C19_StatusStep]_vars /\ [](pc = "menu" => ENABLED Status)

\* Status was looked at with a single action left in the day.
C19_Witness ==
    /\ last = "status"
    /\ pc = "menu"
    /\ actions_left = 1

\* C20: feed stock, eggs and milk always add up to the initial feed stock,
\* so the animal products never exceed it.
C20_FeedConservation ==
    /\ inventory["esa"] + inventory["tamago"] + inventory["miruku"] = InitFeed
    /\ inventory["tamago"] + inventory["miruku"] <= InitFeed

\* Part of the feed stock has been turned into products.
C20_Witness ==
    /\ inventory["tamago"] + inventory["miruku"] > 0
    /\ inventory["esa"] + inventory["tamago"] + inventory["miruku"] = InitFeed

\* C13: the remaining action count stays in 0..actions_per_day, every move
\* or interact lowers it by exactly 1, and the day ends exactly when it is
\* 0; the actions still available, (day_limit - day) * actions_per_day +
\* actions_left, start at day_limit * actions_per_day, never grow and drop
\* by 1 with every move or interact; and when the player does not choose
\* status for ever the run ends, in success or in failure.
ChargedOps == {"move", "plant", "harvest", "growing", "feed", "no_feed",
               "nothing"}

Budget == (DayLimit - day) * ActionsPerDay + actions_left

C13_CountState ==
    /\ actions_left \in 0..ActionsPerDay
    /\ pc = "menu" => (actions_left >= 1 /\ Budget \in 1..(DayLimit * ActionsPerDay))
    /\ pc = "end_day" => actions_left = 0
    /\ (actions_left = 0 /\ pc \notin {"success", "failure"}) => pc = "end_day"

C13_CountStep ==
    /\ last' \in ChargedOps =>
          /\ actions_left' = actions_left - 1
          /\ Budget >= 1
          /\ Budget' = Budget - 1
    /\ Budget' <= Budget
    /\ day' # day => (actions_left = 0 /\ last' = "end_day")

C13_Termination ==
    /\ []C13_CountState
    /\ [][C13_CountStep]_vars
    /\ <>(pc \in {"success", "failure"})

\* The run ended in failure after day_limit * actions_per_day moves, which
\* is what it takes to reach the far corner of the grid.
C13_Witness ==
    /\ pc = "failure"
    /\ player_pos = <<GRID_WIDTH - 1, GRID_HEIGHT - 1>>
    /\ DayLimit * ActionsPerDay = (GRID_WIDTH - 1) + (GRID_HEIGHT - 1)

\* The GameState the program is in.
CurState ==
    [day |-> day, actions_left |-> actions_left, player_pos |-> player_pos,
     fields |-> fields, livestock |-> livestock, inventory |-> inventory]

\* Every step of main is a step of GameSteps.
GameStepsCoverNext ==
    [][CurState' = CurState \/ CurState' \in GameSteps(CurState, DayLimit, goal)]_vars

RECURSIVE SumOver(_, _)
SumOver(f, S) ==
    IF S = {} THEN 0
    ELSE LET x == CHOOSE x \in S : TRUE IN f[x] + SumOver(f, S \ {x})

Distance(p, q) ==
    (IF p[1] >= q[1] THEN p[1] - q[1] ELSE q[1] - p[1])
  + (IF p[2] >= q[2] THEN p[2] - q[2] ELSE q[2] - p[2])

\* The actions a game of `limit` days still offers in state s.
ActionsAvailable(s, limit) == (limit - s.day) * ActionsPerDay + s.actions_left

\* A number of charged actions that goal g still takes at least from
\* state s: one harvest for every crop unit missing, one planting for
\* every missing unit that no plot holds yet, the feedings for the missing
\* products (one feeding yields at most one product per unit of the herd),
\* and the moves to the nearest field or to the barn, whichever is farther.
NeededActions(s, g) ==
    LET missing == [item \in DOMAIN g |->
                        Max(0, g[item] - Get(s.inventory, item))]
        crops == DOMAIN g \cap CropNames
        products == DOMAIN g \ CropNames
        planted(c) == Cardinality({pos \in DOMAIN s.fields :
                                      s.fields[pos].crop = c})
        harvests == SumOver(missing, crops)
        plants == SumOver([c \in crops |-> Max(0, missing[c] - planted(c))],
                          crops)
        units(p) == Cardinality({i \in DOMAIN s.livestock :
                        s.livestock[i].livestock_type.product = p})
        feedings(p) ==
            IF missing[p] = 0 THEN 0
            ELSE IF units(p) = 0 THEN missing[p]
            ELSE (missing[p] + units(p) - 1) \div units(p)
        feeds == IF products = {} THEN 0
                 ELSE CHOOSE n \in {feedings(p) : p \in products} :
                         \A p \in products : feedings(p) <= n
        to_field == IF harvests = 0 THEN 0
                    ELSE CHOOSE n \in {Distance(s.player_pos, pos) :
                                          pos \in DOMAIN s.fields} :
                            \A pos \in DOMAIN s.fields :
                                n <= Distance(s.player_pos, pos)
        to_barn == IF feeds = 0 THEN 0
                   ELSE Distance(s.player_pos, BARN_POSITION)
    IN  harvests + plants + feeds + Max(to_field, to_barn)

\* No step lowers NeededActions by more than the actions it uses up, and
\* nothing is needed once the goal is met: a state that needs more than is
\* available cannot lead to success.
NeededActionsConsistent ==
    /\ [](pc = "success" => NeededActions(CurState, goal) = 0)
    /\ [][NeededActions(CurState, goal)
            <= NeededActions(CurState', goal)
               + ActionsAvailable(CurState, DayLimit)
               - ActionsAvailable(CurState', DayLimit)]_vars
    /\ [](pc = "success" => ActionsAvailable(CurState, DayLimit) >= 0)

\* The states a game can reach through states that do not need more
\* actions than are available.
RECURSIVE Explore(_, _, _, _)
Explore(seen, frontier, limit, g) ==
    IF frontier = {} THEN seen
    ELSE LET stepped == UNION {GameSteps(s, limit, g) : s \in frontier}
             fresh == {t \in stepped \ seen :
                          NeededActions(t, g) <= ActionsAvailable(t, limit)}
         IN  Explore(seen \cup fresh, fresh, limit, g)

\* The states the game can still reach from the state it is in, played
\* with the source's day limit.
SourceReachable ==
    Explore({CurState}, {CurState}, SourceDayLimit, goal)

\* The program has just been started: nothing has been chosen yet.
AtStart == last = "init" /\ CurState = SourceInit /\ goal = SourceGoal

\* C12: when the game starts with the source's day limit, feed stock and
\* goal, some sequence of player choices reaches a state in which the goal
\* is met.
C12_Winnable ==
    AtStart => \E s \in SourceReachable : goal_met(s.inventory, goal)

====
